---- MODULE Spec2Model ----
(***************************************************************************)
(* Model of "Data Cleaning/clean_and_compile.py": the scalar normalizers,  *)
(* the master loader, the quarterly (fuel, CPI) loaders, the tourism       *)
(* loader and compile_dataset.                                             *)
(*                                                                         *)
(* Representation.  A cell of a data frame is a tuple: <<>> is a missing   *)
(* value (NaN / None / <NA>), <<v>> is the value v.  A raw text cell is    *)
(* the sequence of its characters, each a one-character string; a run of   *)
(* letters that no parser looks into (a city name, a state name, a         *)
(* parenthesised annotation) is one token.  A row is a function from the   *)
(* frame's column names to cells, a frame is a record                      *)
(* [cols, rows, idx]: the set of column names, the rows in order, and the  *)
(* index label of each row.  Floating-point quotients are kept exact as    *)
(* [num, den].  large_ms is counted in hundredths (0.40 is 40).            *)
(***************************************************************************)
EXTENDS Integers, Sequences, FiniteSets, TLC

VARIABLES
    pc,        \* position of the running call
    err,       \* <<>> or <<[kind, stage, msg]>>: the exception that ended it
    master,    \* the tickets file as read by pd.read_csv: [cols, rows]
    fuelPath,  \* "none" (None), "absent" (not on disk) or "present"
    cpiPath,
    tourPath,
    fuelFile,  \* a quarterly file as read by pd.read_csv: [cols, rows]
    cpiFile,
    tourFile,  \* the tourism report: a sequence of lines
    loaded,    \* the frame load_clean_tickets returned
    tickets,   \* compile_dataset's local frame `tickets`
    joined,    \* the sources whose merge ran
    fuelQ,     \* the frame load_fuel_quarterly returned
    cpiQ,      \* the frame load_cpi_quarterly returned
    ov         \* compile_dataset's local frame `ov`

vars == <<pc, err, master, fuelPath, cpiPath, tourPath, fuelFile, cpiFile,
          tourFile, loaded, tickets, joined, fuelQ, cpiQ, ov>>

----------------------------------------------------------------------------
(* Bounds of the model *)

MaxRows == 2
MaxObs == 3
MaxLines == 2

----------------------------------------------------------------------------
(* Generic helpers *)

NA == <<>>

IsNA(c) == c = <<>>

NotNA(c) == c # <<>>

Val(c) == c[1]

Range(s) == {s[i] : i \in 1..Len(s)}

SeqsUpTo(S, n) == UNION {[1..k -> S] : k \in 0..n}

EmptyFrame == [cols |-> {}, rows |-> <<>>, idx |-> <<>>]

NoErr == <<>>

Raise(kind, stage, msg) == <<[kind |-> kind, stage |-> stage, msg |-> msg]>>

----------------------------------------------------------------------------
(* Text: str.strip, str.replace, float() *)

Digits == <<"0", "1", "2", "3", "4", "5", "6", "7", "8", "9">>

IsDigit(ch) == \E i \in 1..10 : Digits[i] = ch

DigitVal(ch) == (CHOOSE i \in 1..10 : Digits[i] = ch) - 1

IsWs(ch) == ch = " "

RECURSIVE LStrip(_)
LStrip(s) == IF s # <<>> /\ IsWs(Head(s)) THEN LStrip(Tail(s)) ELSE s

RECURSIVE RStrip(_)
RStrip(s) ==
    IF s # <<>> /\ IsWs(s[Len(s)]) THEN RStrip(SubSeq(s, 1, Len(s) - 1)) ELSE s

Strip(s) == RStrip(LStrip(s))

Remove(s, ch) == SelectSeq(s, LAMBDA t : t # ch)

RECURSIVE DigitsValue(_)
DigitsValue(s) ==
    IF s = <<>> THEN 0
    ELSE 10 * DigitsValue(SubSeq(s, 1, Len(s) - 1)) + DigitVal(s[Len(s)])

AllDigits(s) == s # <<>> /\ \A i \in 1..Len(s) : IsDigit(s[i])

\* float(s) inside try/except ValueError: surrounding blanks are accepted,
\* anything but a number gives the missing value.
FloatOrNaN(s) ==
    IF AllDigits(Strip(s)) THEN <<DigitsValue(Strip(s))>> ELSE NA

\* pd.to_numeric(..., errors="coerce") on one cell
ToNumeric(c) == IF AllDigits(c) THEN <<DigitsValue(c)>> ELSE NA

parse_money(x) ==
    IF IsNA(x) THEN NA
    ELSE LET s == Remove(Remove(Strip(x), "$"), ",")
         IN  IF s = <<>> THEN NA ELSE FloatOrNaN(s)

parse_number(x) ==
    IF IsNA(x) THEN NA
    ELSE LET s == Remove(Strip(x), ",")
         IN  IF s = <<>> THEN NA ELSE FloatOrNaN(s)

----------------------------------------------------------------------------
(* extract_city_state *)

StateCodes == {"CA", "HI", "TX", "FL"}

IsParen(t) == t = "(Metropolitan Area)"

\* re.sub(r"\s*\(.*\)\s*$", "", s): when the text ends in ")" the match starts
\* at the blanks before the leftmost "(".
StripTrailingParen(s) ==
    LET r == RStrip(s)
    IN  IF r # <<>> /\ IsParen(r[Len(r)])
        THEN LET first == CHOOSE i \in 1..Len(r) :
                              IsParen(r[i]) /\ \A j \in 1..(i - 1) : ~IsParen(r[j])
             IN  RStrip(SubSeq(r, 1, first - 1))
        ELSE s

\* re.match(r"^(.*?),\s*([A-Z]{2})\s*$", s2): the positions of a comma that is
\* followed by blanks, one two-letter upper-case code and blanks only.
StateCommaAt(s2) ==
    {i \in 1..Len(s2) :
        /\ s2[i] = ","
        /\ LET rest == Strip(SubSeq(s2, i + 1, Len(s2)))
           IN  Len(rest) = 1 /\ rest[1] \in StateCodes}

extract_city_state(city_field) ==
    IF IsNA(city_field) THEN [name |-> NA, state |-> NA]
    ELSE LET s  == Strip(city_field)
             s2 == StripTrailingParen(s)
         IN  IF StateCommaAt(s2) = {}
             THEN [name |-> <<s2>>, state |-> NA]
             ELSE LET i == CHOOSE k \in StateCommaAt(s2) : TRUE
                  IN  [name  |-> <<Strip(SubSeq(s2, 1, i - 1))>>,
                       state |-> <<Strip(SubSeq(s2, i + 1, Len(s2)))[1]>>]

----------------------------------------------------------------------------
(* Data frames *)

Idx0(n) == [i \in 1..n |-> i - 1]

MapRows(f, F(_)) == [f EXCEPT !.rows = [i \in 1..Len(f.rows) |-> F(f.rows[i])]]

\* df[c] = df[c].apply(F), or a pd.to_numeric of the column
MapCol(f, c, F(_)) == MapRows(f, LAMBDA r : [r EXCEPT ![c] = F(@)])

\* df[c] = ... for a column c the frame may not have yet
SetCol(f, c, F(_)) ==
    [cols |-> f.cols \cup {c},
     rows |-> [i \in 1..Len(f.rows) |->
                  [k \in f.cols \cup {c} |->
                      IF k = c THEN F(f.rows[i]) ELSE f.rows[i][k]]],
     idx  |-> f.idx]

\* the positions a boolean mask keeps, in order
RECURSIVE KeepIdx(_, _)
KeepIdx(mask, i) ==
    IF i > Len(mask) THEN <<>>
    ELSE (IF mask[i] THEN <<i>> ELSE <<>>) \o KeepIdx(mask, i + 1)

Take(f, ks) ==
    [cols |-> f.cols,
     rows |-> [j \in 1..Len(ks) |-> f.rows[ks[j]]],
     idx  |-> [j \in 1..Len(ks) |-> f.idx[ks[j]]]]

\* df[mask]: the rows the mask keeps, in order, with their index labels
FilterRows(f, P(_)) ==
    Take(f, KeepIdx([i \in 1..Len(f.rows) |-> P(f.rows[i])], 1))

KeyOf(r, subset) == [c \in subset |-> r[c]]

\* keep="last" in place of the default
drop_duplicates_keep_last(f, subset) ==
    LET last(i) == \A j \in (i + 1)..Len(f.rows) :
                       KeyOf(f.rows[j], subset) # KeyOf(f.rows[i], subset)
    IN  Take(f, KeepIdx([i \in 1..Len(f.rows) |-> last(i)], 1))

\* df.drop_duplicates(subset=...): keep="first"
drop_duplicates(f, subset) ==
    LET first(i) == \A j \in 1..(i - 1) :
                        KeyOf(f.rows[j], subset) # KeyOf(f.rows[i], subset)
    IN  Take(f, KeepIdx([i \in 1..Len(f.rows) |-> first(i)], 1))

\* lexicographic "less than" on tuples of integers
RECURSIVE TupleLess(_, _)
TupleLess(a, b) ==
    IF a = <<>> THEN FALSE
    ELSE Head(a) < Head(b) \/ (Head(a) = Head(b) /\ TupleLess(Tail(a), Tail(b)))

\* the permutation a stable ascending sort applies to rows whose sort keys
\* are keys[1..n] (sort_values on several columns: a lexsort, ties keep their
\* order)
RECURSIVE InsertPos(_, _, _)
InsertPos(sorted, k, keys) ==
    IF sorted = <<>> THEN <<k>>
    ELSE IF TupleLess(keys[k], keys[Head(sorted)])
         THEN <<k>> \o sorted
         ELSE <<Head(sorted)>> \o InsertPos(Tail(sorted), k, keys)

RECURSIVE SortPermUpTo(_, _)
SortPermUpTo(n, keys) ==
    IF n = 0 THEN <<>> ELSE InsertPos(SortPermUpTo(n - 1, keys), n, keys)

SortPerm(keys) == SortPermUpTo(Len(keys), keys)

\* left.merge(right, on=on, how="left"): every left row in order, once per
\* right row with an equal key (missing keys equal each other), or once with
\* the right columns missing; the result has a fresh RangeIndex.
MergedRow(l, r, rcols) ==
    [c \in DOMAIN l \cup rcols |-> IF c \in DOMAIN l THEN l[c] ELSE r[c]]

MatchesOf(l, right, on) ==
    SelectSeq(right.rows, LAMBDA r : KeyOf(r, on) = KeyOf(l, on))

\* how="inner" in place of how="left"
RowsForInner(l, right, on) ==
    LET ms    == MatchesOf(l, right, on)
        rcols == right.cols \ on
    IN  [j \in 1..Len(ms) |-> MergedRow(l, ms[j], rcols)]

RowsFor(l, right, on) ==
    LET ms    == MatchesOf(l, right, on)
        rcols == right.cols \ on
    IN  IF ms = <<>>
        THEN <<[c \in DOMAIN l \cup rcols |-> IF c \in DOMAIN l THEN l[c] ELSE NA]>>
        ELSE [j \in 1..Len(ms) |-> MergedRow(l, ms[j], rcols)]

RECURSIVE MergeRows(_, _, _)
MergeRows(lrows, right, on) ==
    IF lrows = <<>> THEN <<>>
    ELSE RowsFor(Head(lrows), right, on) \o MergeRows(Tail(lrows), right, on)

merge_left(left, right, on) ==
    LET rows == MergeRows(left.rows, right, on)
    IN  [cols |-> left.cols \cup right.cols,
         rows |-> rows,
         idx  |-> Idx0(Len(rows))]

----------------------------------------------------------------------------
(* load_clean_tickets *)

required == <<"Year", "quarter", "citymarketid_1", "citymarketid_2",
              "city1", "city2", "nsmiles", "passengers", "fare">>

\* a check that stops at the first missing column
FirstMissingCol(df) ==
    LET all == SelectSeq(required, LAMBDA c : c \notin df.cols)
    IN  IF all = <<>> THEN <<>> ELSE <<all[1]>>

MissingCols(df) == SelectSeq(required, LAMBDA c : c \notin df.cols)

MoneyCols == {"fare", "fare_lg", "fare_low"}

ShareCols == {"large_ms", "lf_ms"}

grain == {"Year", "quarter", "citymarketid_1", "citymarketid_2",
          "carrier_lg", "carrier_low"}

\* lines 113-125: the coercions, column by column
CoerceRow(r) ==
    [c \in DOMAIN r |->
        CASE c \in {"Year", "quarter", "nsmiles"} -> ToNumeric(r[c])
          [] c = "passengers"                     -> parse_number(r[c])
          [] c \in MoneyCols                      -> parse_money(r[c])
          [] c \in ShareCols                      -> ToNumeric(r[c])
          [] OTHER                                -> r[c]]

\* lines 127-128
AddCityState(f) ==
    LET a == SetCol(f, "city1_name", LAMBDA r : extract_city_state(r["city1"]).name)
        b == SetCol(a, "city1_state", LAMBDA r : extract_city_state(r["city1"]).state)
        c == SetCol(b, "city2_name", LAMBDA r : extract_city_state(r["city2"]).name)
    IN  SetCol(c, "city2_state", LAMBDA r : extract_city_state(r["city2"]).state)

\* line 132 left out
AdmittedByDateOnly(r) == NotNA(r["Year"]) /\ NotNA(r["quarter"])

\* lines 131-132
Admitted(r) ==
    /\ NotNA(r["Year"]) /\ NotNA(r["quarter"])
    /\ NotNA(r["fare"]) /\ NotNA(r["nsmiles"])

\* the subset without the two carrier columns
DedupeOnRouteOnly(f) ==
    drop_duplicates(f, {"Year", "quarter", "citymarketid_1", "citymarketid_2"})

\* lines 135-138
Dedupe(f) ==
    LET existing == grain \cap f.cols
    IN  IF Cardinality(existing) >= 4 THEN drop_duplicates(f, existing) ELSE f

\* The call: [err, out].  df is the frame pd.read_csv returned.
load_clean_tickets(df) ==
    IF MissingCols(df) # <<>>
    THEN [err |-> Raise("ValueError", "tickets", MissingCols(df)), out |-> EmptyFrame]
    ELSE LET df0     == [cols |-> df.cols, rows |-> df.rows, idx |-> Idx0(Len(df.rows))]
             coerced == MapRows(df0, CoerceRow)
             kept    == FilterRows(AddCityState(coerced), Admitted)
         IN  [err |-> NoErr, out |-> Dedupe(kept)]

----------------------------------------------------------------------------
(* add_year_quarter and the quarterly loaders *)

IsLeap(y) == (y % 4 = 0 /\ y % 100 # 0) \/ y % 400 = 0

DaysIn(y, m) ==
    IF m = 2 THEN (IF IsLeap(y) THEN 29 ELSE 28)
    ELSE IF m \in {4, 6, 9, 11} THEN 30 ELSE 31

\* pd.to_datetime(errors="coerce") on a YYYY-MM-DD text: <<[year, month]>>, or
\* the missing value (NaT) for anything that is no date
ParseDate(c) ==
    IF /\ Len(c) = 10
       /\ c[5] = "-" /\ c[8] = "-"
       /\ AllDigits(SubSeq(c, 1, 4)) /\ AllDigits(SubSeq(c, 6, 7))
       /\ AllDigits(SubSeq(c, 9, 10))
    THEN LET y  == DigitsValue(SubSeq(c, 1, 4))
             m  == DigitsValue(SubSeq(c, 6, 7))
             dd == DigitsValue(SubSeq(c, 9, 10))
         IN  IF y >= 1 /\ m \in 1..12 /\ dd >= 1 /\ dd <= DaysIn(y, m)
             THEN <<[year |-> y, month |-> m]>>
             ELSE NA
    ELSE NA

\* a quarter counted from month \div 3
QuarterOffByOne(m) == 1 + (m \div 3)

\* Series.dt.quarter
QuarterOf(m) == 1 + ((m - 1) \div 3)

add_year_quarter(f, date_col) ==
    LET a == SetCol(f, "Year",
                 LAMBDA r : IF IsNA(ParseDate(r[date_col])) THEN NA
                            ELSE <<Val(ParseDate(r[date_col])).year>>)
    IN  SetCol(a, "quarter",
            LAMBDA r : IF IsNA(ParseDate(r[date_col])) THEN NA
                       ELSE <<QuarterOf(Val(ParseDate(r[date_col])).month)>>)

RECURSIVE SumSeq(_)
SumSeq(s) == IF s = <<>> THEN 0 ELSE Head(s) + SumSeq(Tail(s))

\* a mean that counts a group without values as zero
MeanZeroFilled(cells) ==
    LET valid == SelectSeq(cells, NotNA)
    IN  IF valid = <<>> THEN <<[num |-> 0, den |-> 1]>>
        ELSE <<[num |-> SumSeq([i \in 1..Len(valid) |-> Val(valid[i])]),
                den |-> Len(valid)]>>

\* Series.mean() of one group: missing values are skipped, and a group with
\* no value left has a missing mean
MeanOf(cells) ==
    LET valid == SelectSeq(cells, NotNA)
    IN  IF valid = <<>> THEN NA
        ELSE <<[num |-> SumSeq([i \in 1..Len(valid) |-> Val(valid[i])]),
                den |-> Len(valid)]>>

YQ == {"Year", "quarter"}

\* groupby sorts its keys ascending, a missing key last
GroupSortKey(r) ==
    IF IsNA(r["Year"]) \/ IsNA(r["quarter"]) THEN <<1, 0, 0>>
    ELSE <<0, Val(r["Year"]), Val(r["quarter"])>>

\* df.groupby(["Year","quarter"], dropna=False)[val_col].mean().reset_index()
\* with val_col renamed to out_col
GroupMean(f, val_col, out_col) ==
    LET heads == drop_duplicates(f, YQ).rows
        perm  == SortPerm([i \in 1..Len(heads) |-> GroupSortKey(heads[i])])
        group(k) == SelectSeq(f.rows, LAMBDA r : KeyOf(r, YQ) = k)
        mean(k)  == MeanOf([i \in 1..Len(group(k)) |-> group(k)[i][val_col]])
    IN  [cols |-> YQ \cup {out_col},
         rows |-> [j \in 1..Len(perm) |->
                      LET k == KeyOf(heads[perm[j]], YQ)
                      IN  [c \in YQ \cup {out_col} |->
                              IF c = out_col THEN mean(k) ELSE k[c]]],
         idx  |-> Idx0(Len(perm))]

\* The body shared by load_fuel_quarterly and load_cpi_quarterly: [err, out].
\* df is the frame pd.read_csv returned, its columns in file order.
LoadQuarterly(df, out_col, stage, msg) ==
    IF "observation_date" \notin Range(df.cols)
    THEN [err |-> Raise("ValueError", stage, msg), out |-> EmptyFrame]
    ELSE LET others == SelectSeq(df.cols, LAMBDA c : c # "observation_date")
         IN  IF others = <<>>
             THEN [err |-> Raise("IndexError", stage, <<>>), out |-> EmptyFrame]
             ELSE LET val_col == others[1]
                      f0 == [cols |-> Range(df.cols), rows |-> df.rows,
                             idx |-> Idx0(Len(df.rows))]
                      f1 == MapCol(add_year_quarter(f0, "observation_date"),
                                   val_col, ToNumeric)
                      g  == GroupMean(f1, val_col, out_col)
                  IN  [err |-> NoErr,
                       out |-> FilterRows(g, LAMBDA r :
                                   NotNA(r["Year"]) /\ NotNA(r["quarter"]))]

load_fuel_quarterly(df) ==
    LoadQuarterly(df, "jet_fuel_price_gulf", "fuel", "Fuel file missing observation_date")

load_cpi_quarterly(df) ==
    LoadQuarterly(df, "cpi_index", "cpi", "CPI file missing observation_date")

----------------------------------------------------------------------------
(* load_overseas_visitors *)

STATE_TO_ABBR ==
    ("Alabama" :> "AL") @@ ("Alaska" :> "AK") @@ ("Arizona" :> "AZ") @@
    ("Arkansas" :> "AR") @@ ("California" :> "CA") @@ ("Colorado" :> "CO") @@
    ("Connecticut" :> "CT") @@ ("Delaware" :> "DE") @@ ("District of Columbia" :> "DC") @@
    ("Florida" :> "FL") @@ ("Georgia" :> "GA") @@ ("Hawaii" :> "HI") @@
    ("Idaho" :> "ID") @@ ("Illinois" :> "IL") @@ ("Indiana" :> "IN") @@
    ("Iowa" :> "IA") @@ ("Kansas" :> "KS") @@ ("Kentucky" :> "KY") @@
    ("Louisiana" :> "LA") @@ ("Maine" :> "ME") @@ ("Maryland" :> "MD") @@
    ("Massachusetts" :> "MA") @@ ("Michigan" :> "MI") @@ ("Minnesota" :> "MN") @@
    ("Mississippi" :> "MS") @@ ("Missouri" :> "MO") @@ ("Montana" :> "MT") @@
    ("Nebraska" :> "NE") @@ ("Nevada" :> "NV") @@ ("New Hampshire" :> "NH") @@
    ("New Jersey" :> "NJ") @@ ("New Mexico" :> "NM") @@ ("New York" :> "NY") @@
    ("North Carolina" :> "NC") @@ ("North Dakota" :> "ND") @@ ("Ohio" :> "OH") @@
    ("Oklahoma" :> "OK") @@ ("Oregon" :> "OR") @@ ("Pennsylvania" :> "PA") @@
    ("Rhode Island" :> "RI") @@ ("South Carolina" :> "SC") @@ ("South Dakota" :> "SD") @@
    ("Tennessee" :> "TN") @@ ("Texas" :> "TX") @@ ("Utah" :> "UT") @@
    ("Vermont" :> "VT") @@ ("Virginia" :> "VA") @@ ("Washington" :> "WA") @@
    ("West Virginia" :> "WV") @@ ("Wisconsin" :> "WI") @@ ("Wyoming" :> "WY") @@
    ("Hawaiian Islands" :> "HI") @@ ("Guam" :> "GU") @@ ("Puerto Rico" :> "PR") @@
    ("U.S. Virgin Islands" :> "VI") @@ ("Northern Mariana Islands" :> "MP") @@ ("American Samoa" :> "AS")

\* re.match(r"^\s*\d+\s*,", ln)
RECURSIVE DropDigits(_)
DropDigits(s) == IF s # <<>> /\ IsDigit(Head(s)) THEN DropDigits(Tail(s)) ELSE s

\* the pattern without the \s* between the digits and the comma
IsDataLineNoGap(ln) ==
    LET a == LStrip(ln)
        b == DropDigits(a)
    IN  Len(b) < Len(a) /\ b # <<>> /\ Head(b) = ","

IsDataLine(ln) ==
    LET a == LStrip(ln)
        b == DropDigits(a)
        c == LStrip(b)
    IN  Len(b) < Len(a) /\ c # <<>> /\ Head(c) = ","

\* next(csv.reader([ln])): fields split at commas outside quotes; a quote
\* opens a quoted field only at the start of a field, a doubled quote inside
\* one is a quote character
RECURSIVE CsvScan(_, _, _, _)
CsvScan(s, cur, inq, atStart) ==
    IF s = <<>> THEN <<cur>>
    ELSE LET t == Head(s)
         IN  IF inq
             THEN IF t = "\""
                  THEN IF Len(s) >= 2 /\ s[2] = "\""
                       THEN CsvScan(Tail(Tail(s)), Append(cur, "\""), TRUE, FALSE)
                       ELSE CsvScan(Tail(s), cur, FALSE, FALSE)
                  ELSE CsvScan(Tail(s), Append(cur, t), TRUE, FALSE)
             ELSE IF t = "," THEN <<cur>> \o CsvScan(Tail(s), <<>>, FALSE, TRUE)
                  ELSE IF t = "\"" /\ atStart THEN CsvScan(Tail(s), cur, TRUE, FALSE)
                  ELSE CsvScan(Tail(s), Append(cur, t), FALSE, FALSE)

CsvRow(ln) == IF ln = <<>> THEN <<>> ELSE CsvScan(ln, <<>>, FALSE, TRUE)

pct(p) ==
    LET v == FloatOrNaN(Remove(Strip(p), "%"))
    IN  IF IsNA(v) THEN NA ELSE <<[num |-> Val(v), den |-> 100]>>

num_k(n) ==
    LET t == Remove(Remove(Strip(n), ","), "\"")
    IN  IF t = <<>> \/ IsNA(FloatOrNaN(t)) THEN NA ELSE <<Val(FloatOrNaN(t)) * 1000>>

AbbrOf(state_name) ==
    IF Len(state_name) = 1 /\ state_name[1] \in DOMAIN STATE_TO_ABBR
    THEN <<STATE_TO_ABBR[state_name[1]]>>
    ELSE NA

OvCols == {"state_name", "state_abbr", "overseas_share_2024",
           "overseas_visitation_2024", "overseas_change_2024_vs_2023",
           "overseas_share_2023", "overseas_visitation_2023"}

\* lines 204-214: the record of one parsed row
OvRecord(row) ==
    LET state_name == Strip(row[2])
    IN  [c \in OvCols |->
            CASE c = "state_name"                   -> <<state_name>>
              [] c = "state_abbr"                   -> AbbrOf(state_name)
              [] c = "overseas_share_2024"          -> pct(row[3])
              [] c = "overseas_visitation_2024"     -> num_k(row[4])
              [] c = "overseas_change_2024_vs_2023" -> pct(row[5])
              [] c = "overseas_share_2023"          -> pct(row[6])
              [] c = "overseas_visitation_2023"     -> num_k(row[7])]

\* line 190: `if len(row) < 7: continue`
LongEnough(row) == Len(row) >= 7

\* The call: [err, out].  lines is the text after splitlines().
load_overseas_visitors(lines) ==
    LET data_lines == SelectSeq(lines, IsDataLine)
        parsed     == [i \in 1..Len(data_lines) |-> CsvRow(data_lines[i])]
        long       == SelectSeq(parsed, LongEnough)
        rows       == [i \in 1..Len(long) |-> OvRecord(long[i])]
    IN  IF data_lines = <<>>
        THEN [err |-> Raise("ValueError", "tourism",
                            "Could not find ranked state rows in overseas visitors file."),
              out |-> EmptyFrame]
        ELSE IF rows = <<>>
        THEN \* pd.DataFrame([]) has no columns: out["state_abbr"] raises
             [err |-> Raise("KeyError", "tourism", "state_abbr"), out |-> EmptyFrame]
        ELSE LET out == [cols |-> OvCols, rows |-> rows, idx |-> Idx0(Len(rows))]
             IN  [err |-> NoErr,
                  out |-> drop_duplicates(
                              FilterRows(out, LAMBDA r : NotNA(r["state_abbr"])),
                              {"state_abbr"})]

----------------------------------------------------------------------------
(* compile_dataset, statement by statement *)

\* `if path`, without the test of the disk
GivenPath(path) == path # "none"

\* `if path and path.exists()`
Available(path) == path = "present"

\* ov.add_prefix(pre).rename(columns={pre + "state_abbr": key})
Renamed(pre, key, c) == IF c = "state_abbr" THEN key ELSE pre \o c

PrefixFrame(f, pre, key) ==
    LET newcols == {Renamed(pre, key, c) : c \in f.cols}
        old(n)  == CHOOSE c \in f.cols : Renamed(pre, key, c) = n
    IN  [cols |-> newcols,
         rows |-> [i \in 1..Len(f.rows) |-> [n \in newcols |-> f.rows[i][old(n)]]],
         idx  |-> f.idx]

DominanceLow == 40
DominanceHigh == 70
LccLow == 15
LccHigh == 35

\* pd.cut(x, bins=[-inf, lo, hi, inf], labels=...): right-closed bins
Cut(x, lo, hi, labels) ==
    IF IsNA(x) THEN NA
    ELSE IF Val(x) <= lo THEN <<labels[1]>>
    ELSE IF Val(x) <= hi THEN <<labels[2]>>
    ELSE <<labels[3]>>

DominanceLabels == <<"high_competition", "moderate", "dominated">>

LccLabels == <<"low_lcc", "medium_lcc", "high_lcc">>

\* pd.cut(..., right=False): left-closed bins
dominance_bucket_left_closed(x) ==
    IF IsNA(x) THEN NA
    ELSE IF Val(x) < DominanceLow THEN <<DominanceLabels[1]>>
    ELSE IF Val(x) < DominanceHigh THEN <<DominanceLabels[2]>>
    ELSE <<DominanceLabels[3]>>

dominance_bucket(x) == Cut(x, DominanceLow, DominanceHigh, DominanceLabels)

lcc_bucket(x) == Cut(x, LccLow, LccHigh, LccLabels)

\* tickets["fare"] / tickets["nsmiles"]; a zero denominator stands for the
\* infinite or undefined quotient
FarePerMile(r) ==
    IF IsNA(r["fare"]) \/ IsNA(r["nsmiles"]) THEN NA
    ELSE <<[num |-> Val(r["fare"]), den |-> Val(r["nsmiles"])]>>

\* lines 252-266
WithFeatures(f) ==
    LET a == SetCol(f, "fare_per_mile", FarePerMile)
        b == IF "large_ms" \in a.cols
             THEN SetCol(a, "dominance_bucket", LAMBDA r : dominance_bucket(r["large_ms"]))
             ELSE a
    IN  IF "lf_ms" \in b.cols
        THEN SetCol(b, "lcc_bucket", LAMBDA r : lcc_bucket(r["lf_ms"]))
        ELSE b

SortKey(r) == <<Val(r["Year"]), Val(r["quarter"]),
                Val(r["citymarketid_1"]), Val(r["citymarketid_2"])>>

sort_values(f) == Take(f, SortPerm([i \in 1..Len(f.rows) |-> SortKey(f.rows[i])]))

reset_index(f) == [f EXCEPT !.idx = Idx0(Len(f.rows))]

\* line 269 without .reset_index(drop=True)
SortedOnly(f) == sort_values(f)

\* line 269
StableOrdering(f) == reset_index(sort_values(f))

\* line 229
LoadTickets ==
    /\ pc = "start"
    /\ LET res == load_clean_tickets(master)
       IN  /\ err' = res.err
           /\ loaded' = res.out
           /\ tickets' = res.out
           /\ pc' = IF res.err = NoErr THEN "fuel" ELSE "failed"
    /\ UNCHANGED <<master, fuelPath, cpiPath, tourPath, fuelFile, cpiFile,
                   tourFile, joined, fuelQ, cpiQ, ov>>

\* lines 232-233, the branch taken
MergeFuel ==
    /\ pc = "fuel"
    /\ Available(fuelPath)
    /\ LET res == load_fuel_quarterly(fuelFile)
       IN  /\ err' = res.err
           /\ fuelQ' = res.out
           /\ IF res.err = NoErr
              THEN /\ tickets' = merge_left(tickets, res.out, YQ)
                   /\ joined' = joined \cup {"fuel"}
                   /\ pc' = "cpi"
              ELSE /\ pc' = "failed"
                   /\ UNCHANGED <<tickets, joined>>
    /\ UNCHANGED <<master, fuelPath, cpiPath, tourPath, fuelFile, cpiFile,
                   tourFile, loaded, cpiQ, ov>>

\* lines 232-233, the branch skipped
SkipFuel ==
    /\ pc = "fuel"
    /\ ~Available(fuelPath)
    /\ pc' = "cpi"
    /\ UNCHANGED <<err, master, fuelPath, cpiPath, tourPath, fuelFile, cpiFile,
                   tourFile, loaded, tickets, joined, fuelQ, cpiQ, ov>>

\* lines 235-236, the branch taken
MergeCpi ==
    /\ pc = "cpi"
    /\ Available(cpiPath)
    /\ LET res == load_cpi_quarterly(cpiFile)
       IN  /\ err' = res.err
           /\ cpiQ' = res.out
           /\ IF res.err = NoErr
              THEN /\ tickets' = merge_left(tickets, res.out, YQ)
                   /\ joined' = joined \cup {"cpi"}
                   /\ pc' = "tourism"
              ELSE /\ pc' = "failed"
                   /\ UNCHANGED <<tickets, joined>>
    /\ UNCHANGED <<master, fuelPath, cpiPath, tourPath, fuelFile, cpiFile,
                   tourFile, loaded, fuelQ, ov>>

\* lines 235-236, the branch skipped
SkipCpi ==
    /\ pc = "cpi"
    /\ ~Available(cpiPath)
    /\ pc' = "tourism"
    /\ UNCHANGED <<err, master, fuelPath, cpiPath, tourPath, fuelFile, cpiFile,
                   tourFile, loaded, tickets, joined, fuelQ, cpiQ, ov>>

\* lines 238-249, the branch taken
MergeTourism ==
    /\ pc = "tourism"
    /\ Available(tourPath)
    /\ LET res == load_overseas_visitors(tourFile)
       IN  /\ err' = res.err
           /\ ov' = res.out
           /\ IF res.err = NoErr
              THEN /\ tickets' =
                        merge_left(
                            merge_left(tickets,
                                       PrefixFrame(res.out, "orig_", "city1_state"),
                                       {"city1_state"}),
                            PrefixFrame(res.out, "dest_", "city2_state"),
                            {"city2_state"})
                   /\ joined' = joined \cup {"tourism"}
                   /\ pc' = "features"
              ELSE /\ pc' = "failed"
                   /\ UNCHANGED <<tickets, joined>>
    /\ UNCHANGED <<master, fuelPath, cpiPath, tourPath, fuelFile, cpiFile,
                   tourFile, loaded, fuelQ, cpiQ>>

\* lines 238-249, the branch skipped
SkipTourism ==
    /\ pc = "tourism"
    /\ ~Available(tourPath)
    /\ pc' = "features"
    /\ UNCHANGED <<err, master, fuelPath, cpiPath, tourPath, fuelFile, cpiFile,
                   tourFile, loaded, tickets, joined, fuelQ, cpiQ, ov>>

\* lines 252-266
DeriveFeatures ==
    /\ pc = "features"
    /\ tickets' = WithFeatures(tickets)
    /\ pc' = "sort"
    /\ UNCHANGED <<err, master, fuelPath, cpiPath, tourPath, fuelFile, cpiFile,
                   tourFile, loaded, joined, fuelQ, cpiQ, ov>>

\* lines 269-270
SortAndReturn ==
    /\ pc = "sort"
    /\ tickets' = StableOrdering(tickets)
    /\ pc' = "done"
    /\ UNCHANGED <<err, master, fuelPath, cpiPath, tourPath, fuelFile, cpiFile,
                   tourFile, loaded, joined, fuelQ, cpiQ, ov>>

Next ==
    \/ LoadTickets
    \/ MergeFuel
    \/ SkipFuel
    \/ MergeCpi
    \/ SkipCpi
    \/ MergeTourism
    \/ SkipTourism
    \/ DeriveFeatures
    \/ SortAndReturn

----------------------------------------------------------------------------
(* The inputs of a run *)

Restrict(r, S) == [c \in S |-> r[c]]

RequiredCols == Range(required)

OptionalCols == {"large_ms", "lf_ms", "carrier_lg", "carrier_low"}

T(y, q, m1, m2, c1, c2, mi, pax, fare, ms, lf, clg) ==
    [c \in RequiredCols \cup OptionalCols |->
        CASE c = "Year"           -> y
          [] c = "quarter"        -> q
          [] c = "citymarketid_1" -> <<m1>>
          [] c = "citymarketid_2" -> <<m2>>
          [] c = "city1"          -> c1
          [] c = "city2"          -> c2
          [] c = "nsmiles"        -> mi
          [] c = "passengers"     -> pax
          [] c = "fare"           -> fare
          [] c = "large_ms"       -> ms
          [] c = "lf_ms"          -> lf
          [] c = "carrier_lg"     -> <<clg>>
          [] c = "carrier_low"    -> <<"WN">>]

Y2023 == <<"2", "0", "2", "3">>
Y2024 == <<"2", "0", "2", "4">>

LosAngeles == <<"Los Angeles", ",", " ", "CA", " ", "(Metropolitan Area)">>
Honolulu == <<"Honolulu", ",", " ", "HI">>
Austin == <<"Austin", ",", "TX", " ">>
UnknownCity == <<"Unknown City">>

\* rows of a tickets file: admitted ones (two of them equal on the whole
\* grain, one differing in carrier_lg only), and one row for each way of
\* failing the admission filter
TicketRows ==
    { T(Y2024, <<"1">>, 2, 1, LosAngeles, Honolulu, <<"5", "0">>,
        <<"1", ",", "0", "0", "0">>, <<"$", "1", ",", "2", "0", "0">>,
        <<"4", "0">>, <<"1", "5">>, "AA"),
      T(Y2023, <<"1">>, 1, 2, Honolulu, UnknownCity, <<"2", "5">>,
        <<"1", "0">>, <<"9", "9">>, <<"4", "1">>, <<"1", "6">>, "AA"),
      T(Y2023, <<"1">>, 1, 2, LosAngeles, Austin, <<"3", "0">>,
        <<>>, <<"$", " ", "7">>, <<"7", "0">>, <<"3", "5">>, "AA"),
      T(Y2023, <<"1">>, 1, 2, Honolulu, LosAngeles, <<"2", "5">>,
        <<"x">>, <<"5">>, <<"7", "1">>, <<"3", "6">>, "DL"),
      T(Y2023, <<"2">>, 1, 1, <<>>, Honolulu, <<"0">>,
        <<"1">>, <<"8">>, <<"3", "9">>, <<>>, "AA"),
      T(<<"x">>, <<"1">>, 1, 1, Honolulu, Austin, <<"2", "5">>,
        <<"1">>, <<"8">>, <<"4", "0">>, <<"1", "5">>, "AA"),
      T(Y2023, <<>>, 1, 1, Honolulu, Austin, <<"2", "5">>,
        <<"1">>, <<"8">>, <<"4", "0">>, <<"1", "5">>, "AA"),
      T(Y2023, <<"1">>, 2, 2, Honolulu, Austin, <<"2", "5">>,
        <<"1">>, <<"$">>, <<"4", "0">>, <<"1", "5">>, "AA"),
      T(Y2023, <<"1">>, 2, 2, Honolulu, Austin, <<"1", ",", "0">>,
        <<"1">>, <<"8">>, <<>>, <<"1", "5">>, "AA") }

OptionalSets == {{}, OptionalCols}

\* tickets files with every required column
CompleteMasters ==
    {[cols |-> RequiredCols \cup opt,
      rows |-> [i \in 1..Len(rows) |-> Restrict(rows[i], RequiredCols \cup opt)]] :
        opt \in OptionalSets, rows \in SeqsUpTo(TicketRows, MaxRows)}

\* tickets files lacking at least one required column
IncompleteMasters ==
    {[cols |-> S,
      rows |-> <<Restrict(CHOOSE r \in TicketRows : r["carrier_lg"] = <<"DL">>, S)>>] :
        S \in (SUBSET RequiredCols) \ {RequiredCols}}

\* one tickets file with three admitted rows, for the runs that vary an
\* auxiliary file
FixedMaster ==
    LET rows == <<T(Y2024, <<"1">>, 2, 1, LosAngeles, Honolulu, <<"5", "0">>,
                    <<"1", "0">>, <<"9", "9">>, <<"4", "0">>, <<"1", "5">>, "AA"),
                  T(Y2023, <<"1">>, 1, 2, Honolulu, UnknownCity, <<"2", "5">>,
                    <<"1", "0">>, <<"9", "9">>, <<"4", "1">>, <<"1", "6">>, "AA"),
                  T(Y2023, <<"2">>, 1, 1, <<>>, Austin, <<"0">>,
                    <<"1">>, <<"8">>, <<"3", "9">>, <<>>, "AA")>>
    IN  [cols |-> RequiredCols \cup OptionalCols, rows |-> rows]

Date(y, m, d) == y \o <<"-">> \o m \o <<"-">> \o d

Obs(val_col, date, v) == ("observation_date" :> date) @@ (val_col :> v)

\* observations of a quarterly file: a date in each of two quarters and a
\* text that is no date (a 30th of February); two values and a text that is
\* no number
ObsDates ==
    { Date(Y2023, <<"0", "3">>, <<"3", "1">>),
      Date(Y2023, <<"0", "4">>, <<"0", "1">>),
      Date(Y2024, <<"0", "2">>, <<"3", "0">>) }

ObsValues == { <<"3">>, <<"5">>, <<".">> }

ObsRows(val_col) == {Obs(val_col, d, v) : d \in ObsDates, v \in ObsValues}

QuarterlyFiles(val_col) ==
    {[cols |-> <<"observation_date", val_col>>, rows |-> rows] :
        rows \in SeqsUpTo(ObsRows(val_col), MaxObs)}

NoQuarterlyFile == [cols |-> <<>>, rows |-> <<>>]

\* a file whose date column has another name, and one with no value column
MisshapenQuarterlyFiles(val_col) ==
    { [cols |-> <<"DATE", val_col>>,
       rows |-> <<("DATE" :> Date(Y2023, <<"0", "1">>, <<"0", "2">>)) @@ (val_col :> <<"3">>)>>],
      [cols |-> <<"observation_date">>,
       rows |-> <<("observation_date" :> Date(Y2023, <<"0", "1">>, <<"0", "2">>))>>] }

\* 2023-Q1 observed twice (3.0 and 5.0), 2023-Q2 observed with no valid value
SampleQuarterlyFile(val_col) ==
    [cols |-> <<"observation_date", val_col>>,
     rows |-> << Obs(val_col, Date(Y2023, <<"0", "1">>, <<"0", "2">>), <<"3">>),
                 Obs(val_col, Date(Y2023, <<"0", "3">>, <<"3", "1">>), <<"5">>),
                 Obs(val_col, Date(Y2023, <<"0", "4">>, <<"0", "1">>), <<".">>) >>]

\* lines of a tourism report
RankedLine(rank, name, share) ==
    rank \o <<",">> \o name \o <<",">> \o share
         \o <<",", "\"", "1", ",", "2", "0", "0", "\"", ",", "5", "%", ",",
              "1", "1", "%", ",", "9", "0", "0">>

ReportLines ==
    { RankedLine(<<"1">>, <<"California">>, <<"2", "0", "%">>),
      RankedLine(<<"2">>, <<"California">>, <<"7", "%">>),
      RankedLine(<<" ", "3", " ">>, <<"Hawaii">>, <<"9", "%">>),
      RankedLine(<<"4">>, <<" ", "Hawaiian Islands">>, <<"8", "%">>),
      RankedLine(<<"5">>, <<"Narnia">>, <<"1", "%">>),
      <<"6", ",", "Texas", ",", "3", "%">>,
      <<"Rank", ",", "State", ",", "Share", ",", "a", ",", "b", ",", "c", ",", "d">>,
      RankedLine(<<"No", " ", "7">>, <<"Texas">>, <<"3", "%">>),
      RankedLine(<<"8", " ">>, <<"Texas">>, <<"4", "%">>),
      RankedLine(<<"9", "x">>, <<"Texas">>, <<"6", "%">>),
      <<>> }

TourismFiles == SeqsUpTo(ReportLines, MaxLines)

NoTourismFile == <<>>

SampleTourismFiles ==
    { << <<"Top", " ", "States">>,
         RankedLine(<<"1">>, <<"California">>, <<"2", "0", "%">>),
         RankedLine(<<"2">>, <<"Hawaiian Islands">>, <<"8", "%">>),
         RankedLine(<<"3">>, <<"Hawaii">>, <<"9", "%">>),
         RankedLine(<<"4">>, <<"Narnia">>, <<"1", "%">>) >>,
      << <<"Top", " ", "States">> >>,
      << <<"1", ",", "California">> >> }

PathStates == {"none", "absent", "present"}

\* the file behind a path: only a path that is on disk has one
FilesAt(path, files, nofile) == IF path = "present" THEN files ELSE {nofile}

\* runs that vary the tickets file, with every source on disk or with
\* some of them missing
InitMasterRuns ==
    /\ master \in CompleteMasters
    /\ \E paths \in { <<"present", "present", "present">>,
                       <<"none", "absent", "absent">>,
                       <<"none", "present", "absent">>,
                       <<"present", "none", "none">> } :
           /\ fuelPath = paths[1]
           /\ cpiPath = paths[2]
           /\ tourPath = paths[3]
    /\ fuelFile \in FilesAt(fuelPath, {SampleQuarterlyFile("WJFUELUSGULF")},
                            NoQuarterlyFile)
    /\ cpiFile \in FilesAt(cpiPath, {SampleQuarterlyFile("CIS2024300000000I")},
                           NoQuarterlyFile)
    /\ tourFile \in FilesAt(tourPath, {f \in SampleTourismFiles : Len(f) > 1},
                            NoTourismFile)

\* runs that vary which sources are given and on disk
InitPathRuns ==
    /\ master = FixedMaster
    /\ fuelPath \in PathStates
    /\ fuelFile \in FilesAt(fuelPath,
                            {SampleQuarterlyFile("WJFUELUSGULF"),
                             [cols |-> <<"DATE", "WJFUELUSGULF">>, rows |-> <<>>]},
                            NoQuarterlyFile)
    /\ cpiPath \in PathStates
    /\ cpiFile \in FilesAt(cpiPath, {SampleQuarterlyFile("CIS2024300000000I")},
                           NoQuarterlyFile)
    /\ tourPath \in PathStates
    /\ tourFile \in FilesAt(tourPath, SampleTourismFiles, NoTourismFile)

\* runs on a tickets file that lacks required columns
InitSchemaRuns ==
    /\ master \in IncompleteMasters
    /\ fuelPath = "present"
    /\ fuelFile = SampleQuarterlyFile("WJFUELUSGULF")
    /\ cpiPath = "none"
    /\ cpiFile = NoQuarterlyFile
    /\ tourPath = "absent"
    /\ tourFile = NoTourismFile

\* runs that vary the fuel file or the cost-index file
InitQuarterlyRuns ==
    /\ master = FixedMaster
    /\ \/ /\ fuelPath = "present"
          /\ fuelFile \in QuarterlyFiles("WJFUELUSGULF")
          /\ cpiPath = "none"
          /\ cpiFile = NoQuarterlyFile
       \/ /\ fuelPath = "absent"
          /\ fuelFile = NoQuarterlyFile
          /\ cpiPath = "present"
          /\ cpiFile \in QuarterlyFiles("CIS2024300000000I")
                             \cup MisshapenQuarterlyFiles("CIS2024300000000I")
    /\ tourPath = "none"
    /\ tourFile = NoTourismFile

\* runs that vary the tourism report
InitTourismRuns ==
    /\ master = FixedMaster
    /\ fuelPath = "none"
    /\ fuelFile = NoQuarterlyFile
    /\ cpiPath = "absent"
    /\ cpiFile = NoQuarterlyFile
    /\ tourPath = "present"
    /\ tourFile \in TourismFiles

Init ==
    /\ pc = "start"
    /\ err = NoErr
    /\ loaded = EmptyFrame
    /\ tickets = EmptyFrame
    /\ joined = {}
    /\ fuelQ = EmptyFrame
    /\ cpiQ = EmptyFrame
    /\ ov = EmptyFrame
    /\ \/ InitMasterRuns
       \/ InitPathRuns
       \/ InitSchemaRuns
       \/ InitQuarterlyRuns
       \/ InitTourismRuns

Spec == Init /\ [][Next]_vars

----------------------------------------------------------------------------
(* Vocabulary of the properties *)

\* load_clean_tickets has returned a frame
Loaded == pc \in {"fuel", "cpi", "tourism", "features", "sort", "done"}

Failed == pc = "failed"

FailedIn(stage) == pc = "failed" /\ err # NoErr /\ Val(err).stage = stage

CountOf(rows, r) == Cardinality({i \in 1..Len(rows) : rows[i] = r})

\* the rows of `tickets` cut down to the columns load_clean_tickets returned
MasterPart(f) == [i \in 1..Len(f.rows) |-> Restrict(f.rows[i], loaded.cols)]

----------------------------------------------------------------------------
(* C1: at every point of compile_dataset after the load, and in the table   *)
(* it returns, `tickets` has as many rows as load_clean_tickets returned,   *)
(* and each row load_clean_tickets returned appears in it exactly as often  *)
(* as load_clean_tickets returned it: no left join drops or duplicates a    *)
(* master row, whichever auxiliary sources are present.                     *)

C1_JoinsPreserveMasterRows ==
    Loaded =>
        /\ Len(tickets.rows) = Len(loaded.rows)
        /\ loaded.cols \subseteq tickets.cols
        /\ \A i \in 1..Len(loaded.rows) :
               CountOf(MasterPart(tickets), loaded.rows[i])
                   = CountOf(loaded.rows, loaded.rows[i])
        /\ pc # "done" => MasterPart(tickets) = loaded.rows

\* all three sources joined onto two master rows, one with a state the
\* tourism table has and one without
C1_Witness ==
    /\ pc = "done"
    /\ joined = {"fuel", "cpi", "tourism"}
    /\ Len(tickets.rows) >= 2
    /\ \E i, j \in 1..Len(tickets.rows) :
           /\ NotNA(tickets.rows[i]["orig_state_name"])
           /\ IsNA(tickets.rows[j]["orig_state_name"])
           /\ NotNA(tickets.rows[i]["jet_fuel_price_gulf"])

----------------------------------------------------------------------------
(* C2 (as claimed): a tickets file lacking a required column fails with a   *)
(* SchemaError whose message lists every missing column, and no ticket      *)
(* table is produced.                                                       *)

C2_SchemaErrorAsClaimed ==
    (pc # "start" /\ RequiredCols \ master.cols # {}) =>
        /\ Failed
        /\ Val(err).kind = "SchemaError"
        /\ Range(Val(err).msg) = RequiredCols \ master.cols
        /\ tickets = EmptyFrame

(* C2 (amended): a tickets file lacking a required column fails with a      *)
(* ValueError raised by the tickets load, whose message lists exactly the   *)
(* missing required columns, in the order of the required list; no ticket   *)
(* table is produced.  A file with every required column does not fail in   *)
(* the tickets load.                                                        *)

C2_MissingColumnsValueError ==
    /\ (pc # "start" /\ RequiredCols \ master.cols # {}) =>
           /\ FailedIn("tickets")
           /\ Val(err).kind = "ValueError"
           /\ Range(Val(err).msg) = RequiredCols \ master.cols
           /\ \A i, j \in 1..Len(Val(err).msg) :
                  i < j =>
                      \E a, b \in 1..Len(required) :
                          /\ a < b
                          /\ required[a] = Val(err).msg[i]
                          /\ required[b] = Val(err).msg[j]
           /\ loaded = EmptyFrame
           /\ tickets = EmptyFrame
    /\ (pc # "start" /\ RequiredCols \subseteq master.cols) => ~FailedIn("tickets")

\* a file missing `fare` only: the error names `fare`
C2_Witness ==
    /\ FailedIn("tickets")
    /\ Val(err).msg = <<"fare">>
    /\ master.cols = RequiredCols \ {"fare"}

----------------------------------------------------------------------------
(* C3: every row load_clean_tickets returns has a Year, a quarter, a fare   *)
(* and an nsmiles that are not missing, each the coerced value of the raw   *)
(* row at the same index label (nothing is imputed); a raw row in which one *)
(* of the four is missing or fails its parse is not returned; and no row of *)
(* `tickets`, up to the compiled table, misses one of the four.             *)

FourCols == {"Year", "quarter", "fare", "nsmiles"}

RawUnusable(r) ==
    \/ ~AllDigits(r["Year"])
    \/ ~AllDigits(r["quarter"])
    \/ ~AllDigits(r["nsmiles"])
    \/ IsNA(parse_money(r["fare"]))

C3_AdmittedRowsComplete ==
    Loaded =>
        /\ \A i \in 1..Len(tickets.rows) :
               \A c \in FourCols : NotNA(tickets.rows[i][c])
        /\ \A j \in 1..Len(loaded.rows) :
               LET raw == master.rows[loaded.idx[j] + 1]
               IN  /\ \A c \in FourCols : NotNA(loaded.rows[j][c])
                   /\ ~RawUnusable(raw)
                   /\ loaded.rows[j]["Year"] = <<DigitsValue(raw["Year"])>>
                   /\ loaded.rows[j]["quarter"] = <<DigitsValue(raw["quarter"])>>
                   /\ loaded.rows[j]["nsmiles"] = <<DigitsValue(raw["nsmiles"])>>
                   /\ loaded.rows[j]["fare"] = parse_money(raw["fare"])
        /\ \A k \in 1..Len(master.rows) :
               RawUnusable(master.rows[k]) => (k - 1) \notin Range(loaded.idx)

\* a file of two rows, the first with a fare of "$" alone: the compiled
\* table holds the second row only
C3_Witness ==
    /\ pc = "done"
    /\ Len(master.rows) = 2
    /\ master.rows[1]["fare"] = <<"$">>
    /\ AllDigits(master.rows[1]["Year"])
    /\ Len(tickets.rows) = 1
    /\ loaded.idx = <<1>>

----------------------------------------------------------------------------
(* C4 (as claimed): a row with large_ms exactly 0.40 gets dominance_bucket  *)
(* "moderate"; a value above 0.7 gets "dominated" and a value below 0.4     *)
(* gets "high_competition".                                                 *)

Bucketed == pc \in {"sort", "done"} /\ "large_ms" \in tickets.cols

C4_BoundaryAsClaimed ==
    Bucketed =>
        \A i \in 1..Len(tickets.rows) :
            LET x == tickets.rows[i]["large_ms"]
                b == tickets.rows[i]["dominance_bucket"]
            IN  NotNA(x) =>
                    /\ Val(x) = 40 => b = <<"moderate">>
                    /\ Val(x) > 70 => b = <<"dominated">>
                    /\ Val(x) < 40 => b = <<"high_competition">>

(* C4 (amended): the bins are closed on the right.  A row with large_ms     *)
(* exactly 0.40 gets "high_competition", as does every value below 0.4; a   *)
(* value above 0.4 and at most 0.7 (0.70 included) gets "moderate"; a value *)
(* above 0.7 gets "dominated"; a missing large_ms gets a missing bucket.    *)

C4_RightClosedBuckets ==
    Bucketed =>
        /\ "dominance_bucket" \in tickets.cols
        /\ \A i \in 1..Len(tickets.rows) :
               LET x == tickets.rows[i]["large_ms"]
                   b == tickets.rows[i]["dominance_bucket"]
               IN  /\ IsNA(x) => IsNA(b)
                   /\ NotNA(x) =>
                          /\ Val(x) <= 40 => b = <<"high_competition">>
                          /\ (Val(x) > 40 /\ Val(x) <= 70) => b = <<"moderate">>
                          /\ Val(x) > 70 => b = <<"dominated">>

\* a compiled table with a row at 0.40, in "high_competition", and a row at
\* 0.41, in "moderate"
C4_Witness ==
    /\ pc = "done"
    /\ "large_ms" \in tickets.cols
    /\ \E i, j \in 1..Len(tickets.rows) :
           /\ tickets.rows[i]["large_ms"] = <<40>>
           /\ tickets.rows[i]["dominance_bucket"] = <<"high_competition">>
           /\ tickets.rows[j]["large_ms"] = <<41>>
           /\ tickets.rows[j]["dominance_bucket"] = <<"moderate">>

----------------------------------------------------------------------------
(* Vocabulary of the quarterly properties, stated on the raw file *)

ValueColOf(file) == SelectSeq(file.cols, LAMBDA c : c # "observation_date")[1]

\* the observation is dated in quarter q of year y
DatedIn(r, y, q) ==
    /\ NotNA(ParseDate(r["observation_date"]))
    /\ Val(ParseDate(r["observation_date"])).year = y
    /\ Val(ParseDate(r["observation_date"])).month \in (3 * q - 2)..(3 * q)

ObsIn(file, y, q) == SelectSeq(file.rows, LAMBDA r : DatedIn(r, y, q))

ValidObsIn(file, y, q) ==
    SelectSeq(ObsIn(file, y, q), LAMBDA r : AllDigits(r[ValueColOf(file)]))

TotalOf(file, rows) ==
    SumSeq([i \in 1..Len(rows) |-> DigitsValue(rows[i][ValueColOf(file)])])

UniqueOn(f, keys) ==
    \A i, j \in 1..Len(f.rows) :
        i # j => KeyOf(f.rows[i], keys) # KeyOf(f.rows[j], keys)

\* load_fuel_quarterly (load_cpi_quarterly) has just returned its lookup,
\* which no later step changes
FuelReturned == pc = "cpi" /\ "fuel" \in joined

CpiReturned == pc = "tourism" /\ "cpi" \in joined

\* load_overseas_visitors has just returned its table
TourismReturned == pc = "features" /\ "tourism" \in joined

\* each entry of the lookup is the mean of the valid observations of its
\* quarter
MeansOf(file, lk, col) ==
    /\ UniqueOn(lk, YQ)
    /\ \A i \in 1..Len(lk.rows) :
           LET r  == lk.rows[i]
               vs == ValidObsIn(file, Val(r["Year"]), Val(r["quarter"]))
           IN  /\ NotNA(r["Year"]) /\ NotNA(r["quarter"])
               /\ vs # <<>> =>
                      /\ NotNA(r[col])
                      /\ Val(r[col]).den > 0
                      /\ Val(r[col]).num * Len(vs) = TotalOf(file, vs) * Val(r[col]).den
               /\ vs = <<>> => IsNA(r[col])

\* each compiled row carries the entry of its (Year, quarter), or nothing
CarriedOver(lk, col) ==
    /\ col \in tickets.cols
    /\ \A i \in 1..Len(tickets.rows) :
           LET t  == tickets.rows[i]
               ms == SelectSeq(lk.rows, LAMBDA r : r["Year"] = t["Year"]
                                                   /\ r["quarter"] = t["quarter"])
           IN  IF ms = <<>> THEN IsNA(t[col]) ELSE t[col] = ms[1][col]

----------------------------------------------------------------------------
(* C5: the lookup load_fuel_quarterly (load_cpi_quarterly) returns has at   *)
(* most one row per (Year, quarter); the value of a row is the arithmetic   *)
(* mean of the numeric values of the raw observations dated in that quarter *)
(* (missing when none of them is numeric); and each row of `tickets`, up to *)
(* the compiled table, carries in jet_fuel_price_gulf (cpi_index) the value *)
(* of the lookup row of its (Year, quarter), or a missing value when the    *)
(* lookup has no such row.                                                  *)

C5_QuarterlyMeanJoined ==
    /\ FuelReturned => MeansOf(fuelFile, fuelQ, "jet_fuel_price_gulf")
    /\ CpiReturned => MeansOf(cpiFile, cpiQ, "cpi_index")
    /\ "fuel" \in joined => CarriedOver(fuelQ, "jet_fuel_price_gulf")
    /\ "cpi" \in joined => CarriedOver(cpiQ, "cpi_index")

\* two observations, 3.0 and 5.0, dated in 2023-Q1: the compiled 2023-Q1 row
\* carries 4.0
C5_Witness ==
    /\ pc = "done"
    /\ "fuel" \in joined
    /\ Len(ValidObsIn(fuelFile, 2023, 1)) = 2
    /\ TotalOf(fuelFile, ValidObsIn(fuelFile, 2023, 1)) = 8
    /\ \E i \in 1..Len(tickets.rows) :
           /\ tickets.rows[i]["Year"] = <<2023>>
           /\ tickets.rows[i]["quarter"] = <<1>>
           /\ NotNA(tickets.rows[i]["jet_fuel_price_gulf"])
           /\ Val(tickets.rows[i]["jet_fuel_price_gulf"]).num
                  = 4 * Val(tickets.rows[i]["jet_fuel_price_gulf"]).den

----------------------------------------------------------------------------
(* Vocabulary of the tourism properties *)

\* the records of the data lines with at least 7 fields, in file order
RecordsOf(lines) ==
    LET long == SelectSeq([i \in 1..Len(SelectSeq(lines, IsDataLine)) |->
                              CsvRow(SelectSeq(lines, IsDataLine)[i])],
                          LAMBDA row : Len(row) >= 7)
    IN  [i \in 1..Len(long) |-> OvRecord(long[i])]

\* load_overseas_visitors was called and has returned or raised
TourismCalled ==
    /\ tourPath = "present"
    /\ pc \in {"features", "sort", "done"} \/ FailedIn("tourism")

----------------------------------------------------------------------------
(* C6: the table load_overseas_visitors returns has at most one row per     *)
(* state abbreviation; each row is the first record in file order that maps *)
(* to its abbreviation, and every abbreviation a record maps to has a row;  *)
(* no row has a missing abbreviation or a state name outside the            *)
(* name-to-abbreviation table.                                              *)

C6_OneRowPerState ==
    TourismReturned =>
        LET recs == RecordsOf(tourFile)
        IN  /\ UniqueOn(ov, {"state_abbr"})
            /\ \A i \in 1..Len(ov.rows) :
                   LET r == ov.rows[i]
                   IN  /\ NotNA(r["state_abbr"])
                       /\ Len(Val(r["state_name"])) = 1
                       /\ Val(r["state_name"])[1] \in DOMAIN STATE_TO_ABBR
                       /\ STATE_TO_ABBR[Val(r["state_name"])[1]] = Val(r["state_abbr"])
                       /\ \E k \in 1..Len(recs) :
                              /\ recs[k] = r
                              /\ \A m \in 1..(k - 1) :
                                     recs[m]["state_abbr"] # r["state_abbr"]
            /\ \A k \in 1..Len(recs) :
                   NotNA(recs[k]["state_abbr"]) =>
                       \E i \in 1..Len(ov.rows) :
                           ov.rows[i]["state_abbr"] = recs[k]["state_abbr"]

\* a report in which "Hawaiian Islands" comes before "Hawaii" and one state
\* name is unknown: the table has the "Hawaiian Islands" record under HI
C6_Witness ==
    /\ "tourism" \in joined
    /\ \E k, m \in 1..Len(RecordsOf(tourFile)) :
           /\ k < m
           /\ RecordsOf(tourFile)[k]["state_abbr"] = <<"HI">>
           /\ RecordsOf(tourFile)[m]["state_abbr"] = <<"HI">>
           /\ RecordsOf(tourFile)[k] # RecordsOf(tourFile)[m]
    /\ \E k \in 1..Len(RecordsOf(tourFile)) : IsNA(RecordsOf(tourFile)[k]["state_abbr"])
    /\ Cardinality({i \in 1..Len(ov.rows) : ov.rows[i]["state_abbr"] = <<"HI">>}) = 1

----------------------------------------------------------------------------
(* C7: for every tourism file from which no data record is extracted (no    *)
(* line is a data line, or every data line has fewer than 7 fields),        *)
(* load_overseas_visitors fails with a ValueError and with no other kind of *)
(* error.                                                                   *)

C7_EmptyExtractionIsValueError ==
    (TourismCalled /\ RecordsOf(tourFile) = <<>>) =>
        /\ FailedIn("tourism")
        /\ Val(err).kind = "ValueError"

----------------------------------------------------------------------------
(* C8: a source whose path is None or not on disk is never loaded: no error *)
(* comes from it, its merge does not run and none of its columns is in      *)
(* `tickets`; the run fails only by an error of the tickets load or of the  *)
(* load of a source that is on disk; and the compiled table has the columns *)
(* of every source that is on disk.                                         *)

Sources == {"fuel", "cpi", "tourism"}

PathOf(src) ==
    CASE src = "fuel" -> fuelPath [] src = "cpi" -> cpiPath [] src = "tourism" -> tourPath

ColumnsOf(src) ==
    CASE src = "fuel"    -> {"jet_fuel_price_gulf"}
      [] src = "cpi"     -> {"cpi_index"}
      [] src = "tourism" -> {"orig_" \o c : c \in OvCols \ {"state_abbr"}}
                                \cup {"dest_" \o c : c \in OvCols \ {"state_abbr"}}

C8_UnavailableSourcesSkipped ==
    /\ \A src \in Sources :
           PathOf(src) # "present" =>
               /\ src \notin joined
               /\ ColumnsOf(src) \cap tickets.cols = {}
               /\ ~FailedIn(src)
    /\ Failed =>
           /\ err # NoErr
           /\ Val(err).stage = "tickets" \/ PathOf(Val(err).stage) = "present"
    /\ ~Failed => err = NoErr
    /\ pc = "done" =>
           \A src \in Sources :
               PathOf(src) = "present" =>
                   src \in joined /\ ColumnsOf(src) \subseteq tickets.cols

\* fuel None, tourism not on disk, CPI on disk: the compiled table has
\* cpi_index and neither the fuel column nor a tourism column
C8_Witness ==
    /\ pc = "done"
    /\ fuelPath = "none"
    /\ tourPath = "absent"
    /\ cpiPath = "present"
    /\ Len(tickets.rows) >= 1
    /\ "cpi_index" \in tickets.cols
    /\ "jet_fuel_price_gulf" \notin tickets.cols
    /\ "orig_state_name" \notin tickets.cols

----------------------------------------------------------------------------
(* C9: the table compile_dataset returns is ordered ascending by (Year,     *)
(* quarter, citymarketid_1, citymarketid_2): of two adjacent rows the       *)
(* earlier has the smaller or the same key; and its index labels are        *)
(* 0..n-1 in row order.                                                     *)

KeyLeq(a, b) ==
    \/ Val(a["Year"]) < Val(b["Year"])
    \/ /\ a["Year"] = b["Year"]
       /\ \/ Val(a["quarter"]) < Val(b["quarter"])
          \/ /\ a["quarter"] = b["quarter"]
             /\ \/ Val(a["citymarketid_1"]) < Val(b["citymarketid_1"])
                \/ /\ a["citymarketid_1"] = b["citymarketid_1"]
                   /\ Val(a["citymarketid_2"]) <= Val(b["citymarketid_2"])

C9_SortedAndRenumbered ==
    pc = "done" =>
        /\ \A i \in 1..(Len(tickets.rows) - 1) :
               KeyLeq(tickets.rows[i], tickets.rows[i + 1])
        /\ Len(tickets.idx) = Len(tickets.rows)
        /\ \A i \in 1..Len(tickets.rows) : tickets.idx[i] = i - 1

\* two admitted rows that the tickets file holds in descending key order
C9_Witness ==
    /\ pc = "done"
    /\ Len(loaded.rows) = 2
    /\ ~KeyLeq(loaded.rows[1], loaded.rows[2])
    /\ MasterPart(tickets) = <<loaded.rows[2], loaded.rows[1]>>

----------------------------------------------------------------------------
(* C10 (as claimed): a (Year, quarter) none of whose observations has a     *)
(* valid value has no entry in the lookup of load_fuel_quarterly or         *)
(* load_cpi_quarterly, and no entry of a lookup has a missing value.        *)

NoEntryWithoutValue(file, lk, col) ==
    \A i \in 1..Len(lk.rows) :
        /\ NotNA(lk.rows[i][col])
        /\ ValidObsIn(file, Val(lk.rows[i]["Year"]), Val(lk.rows[i]["quarter"])) # <<>>

C10_NoEntryAsClaimed ==
    /\ FuelReturned => NoEntryWithoutValue(fuelFile, fuelQ, "jet_fuel_price_gulf")
    /\ CpiReturned => NoEntryWithoutValue(cpiFile, cpiQ, "cpi_index")

(* C10 (amended): the lookup has an entry for a (Year, quarter) exactly     *)
(* when some observation is dated in it.  A quarter in which observations   *)
(* are dated but none has a valid value has an entry whose value is         *)
(* missing; an entry's value is missing only then, so no value is           *)
(* zero-filled.  Observations whose date does not parse give no entry.      *)

EntriesFollowDates(file, lk, col) ==
    /\ \A y \in 2022..2025, q \in 1..4 :
           (\E i \in 1..Len(lk.rows) :
                lk.rows[i]["Year"] = <<y>> /\ lk.rows[i]["quarter"] = <<q>>)
               <=> ObsIn(file, y, q) # <<>>
    /\ \A i \in 1..Len(lk.rows) :
           /\ NotNA(lk.rows[i]["Year"]) /\ NotNA(lk.rows[i]["quarter"])
           /\ Val(lk.rows[i]["Year"]) \in 2022..2025
           /\ Val(lk.rows[i]["quarter"]) \in 1..4
           /\ IsNA(lk.rows[i][col])
                  <=> ValidObsIn(file, Val(lk.rows[i]["Year"]),
                                 Val(lk.rows[i]["quarter"])) = <<>>

C10_EntryPerDatedQuarter ==
    /\ FuelReturned => EntriesFollowDates(fuelFile, fuelQ, "jet_fuel_price_gulf")
    /\ CpiReturned => EntriesFollowDates(cpiFile, cpiQ, "cpi_index")

\* a fuel file with a valid 2023-Q1 and a 2023-Q2 observed without a valid
\* value, and an observation whose value is no number: the lookup has both
\* quarters, the second with a missing value
C10_Witness ==
    /\ "fuel" \in joined
    /\ \E i, j \in 1..Len(fuelQ.rows) :
           /\ IsNA(fuelQ.rows[i]["jet_fuel_price_gulf"])
           /\ ObsIn(fuelFile, Val(fuelQ.rows[i]["Year"]), Val(fuelQ.rows[i]["quarter"])) # <<>>
           /\ NotNA(fuelQ.rows[j]["jet_fuel_price_gulf"])

----------------------------------------------------------------------------
(* C11: on every successful load at least four of the six grain columns     *)
(* are present and the deduplication runs: no two returned rows are equal   *)
(* on all the present grain columns; each returned row is the first         *)
(* admitted row in file order with its values on them; the returned rows    *)
(* keep their file order; and an admitted row that differs from every       *)
(* earlier admitted row on at least one present grain column is returned.   *)

\* the raw rows the filters admit, by position in the file
AdmittedRaw == {k \in 1..Len(master.rows) : ~RawUnusable(master.rows[k])}

\* the values of raw row k on the grain columns the file has
GrainKey(k) == KeyOf(CoerceRow(master.rows[k]), grain \cap master.cols)

FirstOfItsGroup(k) ==
    \A m \in AdmittedRaw : m < k => GrainKey(m) # GrainKey(k)

C11_FirstOfEachGroupKept ==
    Loaded =>
        /\ Cardinality(grain \cap loaded.cols) >= 4
        /\ grain \cap loaded.cols = grain \cap master.cols
        /\ UniqueOn(loaded, grain \cap loaded.cols)
        /\ \A j \in 1..Len(loaded.rows) :
               /\ (loaded.idx[j] + 1) \in AdmittedRaw
               /\ FirstOfItsGroup(loaded.idx[j] + 1)
               /\ KeyOf(loaded.rows[j], grain \cap loaded.cols)
                      = GrainKey(loaded.idx[j] + 1)
        /\ \A i, j \in 1..Len(loaded.rows) :
               i < j => loaded.idx[i] < loaded.idx[j]
        /\ \A k \in AdmittedRaw :
               FirstOfItsGroup(k) => (k - 1) \in Range(loaded.idx)

\* a file with both carrier columns and two admitted rows that agree on all
\* six grain columns and differ in fare: the first alone is returned
C11_Witness ==
    /\ Loaded
    /\ {"carrier_lg", "carrier_low"} \subseteq master.cols
    /\ AdmittedRaw = {1, 2}
    /\ GrainKey(1) = GrainKey(2)
    /\ master.rows[1]["fare"] # master.rows[2]["fare"]
    /\ loaded.idx = <<0>>

----------------------------------------------------------------------------
(* Vocabulary of C12: what a line of the report looks like, read off the   *)
(* text by position                                                         *)

\* blanks up to a, digits up to b, blanks up to c, then a comma
RankThenComma(ln) ==
    \E a \in 0..Len(ln) : \E b \in (a + 1)..Len(ln) : \E c \in b..(Len(ln) - 1) :
        /\ \A p \in 1..a : IsWs(ln[p])
        /\ \A p \in (a + 1)..b : IsDigit(ln[p])
        /\ \A p \in (b + 1)..c : IsWs(ln[p])
        /\ ln[c + 1] = ","

\* the same with the comma directly after the last digit
RankDirectlyBeforeComma(ln) ==
    \E a \in 0..Len(ln) : \E b \in (a + 1)..(Len(ln) - 1) :
        /\ \A p \in 1..a : IsWs(ln[p])
        /\ \A p \in (a + 1)..b : IsDigit(ln[p])
        /\ ln[b + 1] = ","

\* a comma separates fields unless it stands inside a quoted field
Separates(ln, p) ==
    /\ ln[p] = ","
    /\ Cardinality({q \in 1..(p - 1) : ln[q] = "\""}) % 2 = 0

FieldCount(ln) ==
    IF ln = <<>> THEN 0
    ELSE 1 + Cardinality({p \in 1..Len(ln) : Separates(ln, p)})

\* the states a sequence of lines would give a row, were each line parsed
AbbrsOf(src) ==
    {OvRecord(CsvRow(src[k]))["state_abbr"] : k \in 1..Len(src)} \ {NA}

\* the returned table holds records of the lines src and of no other line
RowsComeFrom(src) ==
    /\ \A i \in 1..Len(ov.rows) :
           \E k \in 1..Len(src) : OvRecord(CsvRow(src[k])) = ov.rows[i]
    /\ {ov.rows[i]["state_abbr"] : i \in 1..Len(ov.rows)} = AbbrsOf(src)
    /\ Len(ov.rows) = Cardinality(AbbrsOf(src))

----------------------------------------------------------------------------
(* C12 (as claimed): a line is a data row if and only if it begins with an  *)
(* integer rank followed by a comma; a line whose rank is preceded by other *)
(* text or is not directly followed by a comma contributes no record; and   *)
(* among the data rows exactly those with at least 7 fields give a record.  *)

ClaimedRecordLines ==
    SelectSeq(tourFile,
              LAMBDA ln : RankDirectlyBeforeComma(ln) /\ FieldCount(ln) >= 7)

C12_DirectCommaAsClaimed ==
    TourismReturned => RowsComeFrom(ClaimedRecordLines)

(* C12 (amended): a line is a data row if and only if, after optional       *)
(* leading blanks, it has one or more digits and then, after optional       *)
(* blanks, a comma; a line whose rank is preceded by other text, or         *)
(* followed by anything but blanks before the comma, contributes no record; *)
(* among the data rows exactly those with at least 7 fields give a record.  *)
(* The loader raises its ValueError exactly when the file has no data row,  *)
(* and returns exactly when some data row has at least 7 fields.            *)

RecordLines ==
    SelectSeq(tourFile, LAMBDA ln : RankThenComma(ln) /\ FieldCount(ln) >= 7)

C12_RankedLongLinesGiveRecords ==
    /\ TourismCalled =>
           /\ (FailedIn("tourism") /\ Val(err).kind = "ValueError")
                  <=> (\A k \in 1..Len(tourFile) : ~RankThenComma(tourFile[k]))
           /\ FailedIn("tourism") <=> RecordLines = <<>>
    /\ TourismReturned => RowsComeFrom(RecordLines)

\* a file of two lines: `6,Texas,3%` (three fields) and a seven-field line
\* that starts `8 ,Texas,4%`: the table returned is the one row of the second
C12_Witness ==
    /\ TourismReturned
    /\ Len(tourFile) = 2
    /\ RankThenComma(tourFile[1]) /\ FieldCount(tourFile[1]) = 3
    /\ RankThenComma(tourFile[2]) /\ ~RankDirectlyBeforeComma(tourFile[2])
    /\ FieldCount(tourFile[2]) = 7
    /\ Len(ov.rows) = 1
    /\ ov.rows[1]["overseas_share_2024"] = <<[num |-> 4, den |-> 100]>>

====
